---------------------------- MODULE Spec2Model ----------------------------
(***************************************************************************)
(* Trac2Kanban: a Trac plugin that copies a ticket to a card on the        *)
(* LeanKit Kanban board of the ticket's team (src/trac2kanban/__init__.py).*)
(*                                                                         *)
(* Text (URLs, paths, JSON tokens) is a sequence of symbols.  A symbol is  *)
(* one character ("/", "3", "\n") or a word that the plugin never looks    *)
(* inside ("kanban", "https://lk").  Python's None is the empty tuple and  *)
(* a present optional value v is <<v>>.                                    *)
(***************************************************************************)
EXTENDS Integers, Sequences, FiniteSets, TLC

VARIABLES
    config,    \* the [trac2kanban] section of trac.ini (read-only)
    tickets,   \* the host's ticket table: id -> row
    sent,      \* per ticket id, the AddCard requests sent to the service so far
    board,     \* the Board object an API client holds (None before construction)
    last       \* the handler call that ran last: its inputs, events and result

vars == <<config, tickets, sent, board, last>>

-----------------------------------------------------------------------------
(* Bounds of the model *)

\* AddCard requests the service is sent in one behaviour
MaxAddCard == 2
\* longest request path, in symbols, offered to match_request
MaxPathLen == 5
\* largest lane position passed to Board.add_card
MaxPosition == 1

-----------------------------------------------------------------------------
(* Python values *)

None == <<>>
Some(v) == <<v>>
IsNone(o) == o = <<>>

\* the result of a call: a returned value, or a propagated exception
Ok(v) == [exc |-> "", val |-> <<v>>]
Raise(e) == [exc |-> e, val |-> <<>>]
Raised(r) == r.exc # ""
Val(r) == r.val[1]

\* what an operation does: the events it caused, in order (requests sent to
\* the service, writes to the client), and its result
Outcome(events, result) == [events |-> events, result |-> result]
Return(v) == Outcome(<<>>, Ok(v))
Throw(e) == Outcome(<<>>, Raise(e))

\* statement sequencing: m, then K on m's value unless m raised
AndThen(events, o) == Outcome(events \o o.events, o.result)
Bind(m, K(_)) ==
    IF Raised(m.result) THEN m ELSE AndThen(m.events, K(Val(m.result)))

Min(a, b) == IF a <= b THEN a ELSE b

\* the last index of key k in list keys[1..n]
RECURSIVE LastIndex(_, _, _)
LastIndex(keys, k, n) ==
    IF n = 0 THEN 0
    ELSE IF keys[n] = k THEN n ELSE LastIndex(keys, k, n - 1)

\* a dict in which the first pair with a key wins
DictZipFirst(keys, vals) ==
    [k \in {keys[i] : i \in 1..Min(Len(keys), Len(vals))} |->
        vals[CHOOSE i \in 1..Len(keys) : keys[i] = k /\ \A j \in 1..(i - 1) : keys[j] # k]]

\* dict(zip(keys, vals)): zip stops at the shorter list, a later pair
\* overwrites an earlier one with the same key
DictZip(keys, vals) ==
    [k \in {keys[i] : i \in 1..Min(Len(keys), Len(vals))} |->
        vals[LastIndex(keys, k, Min(Len(keys), Len(vals)))]]

Digits == <<"0", "1", "2", "3", "4", "5", "6", "7", "8", "9">>
DigitSet == {Digits[i] : i \in 1..10}
DigitVal(c) == (CHOOSE i \in 1..10 : Digits[i] = c) - 1

\* "%d" % n, for n >= 0
RECURSIVE FormatInt(_)
FormatInt(n) ==
    IF n < 10 THEN <<Digits[n + 1]>>
    ELSE FormatInt(n \div 10) \o <<Digits[(n % 10) + 1]>>

\* int(s) for a string of decimal digits
RECURSIVE ParseInt(_)
ParseInt(s) ==
    IF Len(s) = 0 THEN 0
    ELSE 10 * ParseInt(SubSeq(s, 1, Len(s) - 1)) + DigitVal(s[Len(s)])

\* seq[i] with Python's indexing: 0-based, a negative index counts from the
\* end, anything else is an IndexError
PyIndex(seq, i) ==
    IF 0 <= i /\ i < Len(seq) THEN Return(seq[i + 1])
    ELSE IF i < 0 /\ -i <= Len(seq) THEN Return(seq[Len(seq) + i + 1])
    ELSE Throw("IndexError")

-----------------------------------------------------------------------------
(* Configuration *)

CONFIG_SECTION == "trac2kanban"

LanePositions == {-2, 0, 1}

BaseConfig ==
    [permission           |-> "TICKET_MODIFY",
     kanban_base_url      |-> <<"https://lk">>,
     trac_path_kanban     |-> <<"/", "kanban">>,
     trac_path_ticket     |-> <<"/", "ticket">>,
     trac_base_url        |-> <<"https://trac">>,
     trac_teams           |-> <<"alpha", "beta", "alpha", "gamma">>,
     kanban_boards        |-> <<"123", "456", "789">>,
     kanban_lane_position |-> 0,
     kanban_card_type     |-> <<"Ready", "Task">>,
     trac_priorities      |-> <<"major", "minor", "major", "trivial">>,
     kanban_priorities    |-> <<"High", "Low", "Critical">>,
     trac_priority_field  |-> "priority"]

Configs ==
    {[BaseConfig EXCEPT !.kanban_lane_position = p] : p \in LanePositions}


-----------------------------------------------------------------------------
(* Host data: tickets, permissions, the ticket page *)

TicketIds == {3, 12}
Teams == {"alpha", "beta", "gamma"}
Priorities == {"major", "trivial"}

\* a row of the ticket table; a row with exists = FALSE is a ticket that was
\* never saved or was deleted
TicketRow(exists, team, priority) ==
    [exists |-> exists,
     values |-> [summary     |-> <<"Fix", " ", "login">>,
                 description |-> <<"It", " ", "fails">>,
                 team        |-> team,
                 priority    |-> priority]]

TicketRows ==
    {TicketRow(TRUE, t, p) : t \in Teams, p \in Priorities}
        \cup {TicketRow(FALSE, "alpha", "major")}

\* a Ticket object: its id, whether it is stored, its fields
Ticket(id) == [id |-> id, exists |-> tickets[id].exists, values |-> tickets[id].values]

\* ticket[name]
Field(ticket, name) == ticket.values[name]

\* the permission sets req.perm(resource) can be
PermSets == {{"TICKET_VIEW"}, {"TICKET_VIEW", "TICKET_MODIFY"}}

\* page elements of the rendered stream
Div(class) == [tag |-> "div", class |-> class]
Anchor(label, href) == [tag |-> "a", label |-> label, href |-> href]
Streams == {<<Div("summary"), Div("description"), Div("changelog")>>}

-----------------------------------------------------------------------------
(* Trac2KanbanPlugin: the action URL *)

LABEL_NEW == "Kanbanize!"
LABEL_EXISTING == "Baby on Board"

\* how many symbols of s, from index i on, are decimal digits (\d+, greedy)
RECURSIVE DigitRun(_, _)
DigitRun(s, i) ==
    IF i <= Len(s) /\ s[i] \in DigitSet THEN 1 + DigitRun(s, i + 1) ELSE 0

\* "$" at index i of s: the end of the string, or just before a newline that
\* is the last symbol of the string
AtDollar(s, i) ==
    \/ i = Len(s) + 1
    \/ i = Len(s) /\ s[i] = "\n"

\* re.match(ROUTE_PATTERN % path, s) with ROUTE_PATTERN =
\* '^%s/(?P<ticket_id>\d+)$', for a path of literal symbols: the groups of
\* the match, or None
ROUTE_PATTERN(path, s) ==
    LET n == Len(path)
        k == DigitRun(s, n + 2)
    IN  IF /\ Len(s) >= n + 2
           /\ SubSeq(s, 1, n) = path
           /\ s[n + 1] = "/"
           /\ k >= 1
           /\ AtDollar(s, n + 2 + k)
        THEN Some(SubSeq(s, n + 2, n + 1 + k))
        ELSE None

\* a route that only users holding the permission match
_parse_ticket_id_permitted(req) ==
    IF config.permission \in req.perm
    THEN ROUTE_PATTERN(config.trac_path_kanban, req.path_info)
    ELSE None

\* Trac2KanbanPlugin._parse_ticket_id
_parse_ticket_id(req) == ROUTE_PATTERN(config.trac_path_kanban, req.path_info)

\* Trac2KanbanPlugin.match_request
match_request(req) == _parse_ticket_id(req)

\* Python's truth value of what match_request returns (None, or a string)
Truthy(o) == ~IsNone(o) /\ Len(o[1]) > 0

-----------------------------------------------------------------------------
(* Python values of a card's fields, and their JSON encoding *)

PyNone == [t |-> "None"]
PyInt(n) == [t |-> "int", v |-> n]
PyStr(s) == [t |-> "str", v |-> s]
PyBool(b) == [t |-> "bool", v |-> b]
PyList(l) == [t |-> "list", v |-> l]

\* the keys of the card dict, in the order of the literal in create_card
CardKeys ==
    <<"Title", "Description", "TypeId", "Priority", "Size", "IsBlocked",
      "BlockReason", "DueDate", "ExternalSystemName", "ExternalSystemUrl",
      "Tags", "ClassOfServiceId", "ExternalCardID", "AssignedUserIds">>

\* the JSON text of one value (the lists the plugin sends are empty)
JsonValue(x) ==
    CASE x.t = "None" -> <<"null">>
      [] x.t = "int"  -> FormatInt(x.v)
      [] x.t = "str"  -> <<"\"">> \o x.v \o <<"\"">>
      [] x.t = "bool" -> IF x.v THEN <<"true">> ELSE <<"false">>
      [] x.t = "list" -> <<"[", "]">>

\* simplejson.dumps(card): the object's members, each key with the JSON text
\* of its value
dumps(card) ==
    [i \in 1..Len(CardKeys) |->
        [key |-> CardKeys[i], value |-> JsonValue(card[CardKeys[i]])]]

\* the value text of member key of a JSON object
JsonMember(json, key) ==
    json[CHOOSE i \in 1..Len(json) : json[i].key = key].value

\* len(card_json): braces, and per member a key, a colon, the value and a
\* separator
RECURSIVE JsonLen(_, _)
JsonLen(json, n) ==
    IF n = 0 THEN 1
    ELSE JsonLen(json, n - 1) + 3 + Len(json[n].value)

-----------------------------------------------------------------------------
(* LeanKitService *)

HttpRequest(url, method, data, headers) ==
    [ev |-> "http", url |-> url, method |-> method, data |-> data,
     headers |-> headers]

\* a reply of the service: a body that is a JSON document, or one that is not
JsonReply(doc) == [json |-> TRUE, doc |-> doc]
BadReply == [json |-> FALSE, doc |-> [ReplyCode |-> 0, ReplyData |-> <<>>]]

\* simplejson.loads(body)
loads(reply) ==
    IF reply.json THEN Return(reply.doc) ELSE Throw("JSONDecodeError")

\* LeanKitService.call: one HTTP request, the reply's body parsed as JSON
\* whatever the status was
call(url, method, data, headers, reply) ==
    AndThen(<<HttpRequest(url, method, data, headers)>>, loads(reply))

LeanKitService(base_url) == [base_url |-> base_url]

-----------------------------------------------------------------------------
(* Board *)

ApiBoard(service, board_id) ==
    service.base_url \o <<"/", "Kanban", "/", "Api", "/", "Board", "/", board_id>>

\* the ids of the card types whose name is in the allow-list, in order
RECURSIVE MatchingTypeIds(_, _)
MatchingTypeIds(types, allowed) ==
    IF Len(types) = 0 THEN <<>>
    ELSE (IF \E i \in 1..Len(allowed) : allowed[i] = types[1].Name
          THEN <<types[1].Id>> ELSE <<>>)
         \o MatchingTypeIds(Tail(types), allowed)

\* Board._parse_info: [lane id] extended by the matching card type ids
_parse_info(data) ==
    Bind(PyIndex(data.ReplyData, 0), LAMBDA first :
    Bind(PyIndex(first.Lanes, config.kanban_lane_position), LAMBDA lane :
    Return(<<lane.Id>> \o MatchingTypeIds(first.CardTypes, config.kanban_card_type))))

\* Board._get_info
_get_info(service, board_id, reply) ==
    Bind(call(ApiBoard(service, board_id) \o <<"/", "GetBoardIdentifiers">>,
              "GET", None, None, reply),
         LAMBDA content : _parse_info(content))

\* an unpacking that defaults a missing card type id
Unpack2Defaulted(info) ==
    IF Len(info) = 1 THEN Return(info \o <<0>>)
    ELSE IF Len(info) = 2 THEN Return(info) ELSE Throw("ValueError")

\* self.lane_id, self.card_type_id = info: the list must hold exactly two
Unpack2(info) ==
    IF Len(info) = 2 THEN Return(info) ELSE Throw("ValueError")

\* Board.__init__
Board(service, board_name, reply) ==
    IF board_name \notin DOMAIN DictZip(config.trac_teams, config.kanban_boards)
    THEN Throw("KeyError")
    ELSE Bind(Return(DictZip(config.trac_teams, config.kanban_boards)[board_name]),
              LAMBDA board_id :
         Bind(_get_info(service, board_id, reply), LAMBDA info :
         Bind(Unpack2(info), LAMBDA pair :
         Return([service      |-> service,
                 board_id     |-> board_id,
                 lane_id      |-> pair[1],
                 card_type_id |-> pair[2]]))))

\* a stamp that keeps a type id the card already has
StampIfUnset(self, card) ==
    IF card["TypeId"] = PyNone
    THEN [card EXCEPT !["TypeId"] = PyInt(self.card_type_id)]
    ELSE card

\* card["TypeId"] = self.card_type_id
Stamp(self, card) == [card EXCEPT !["TypeId"] = PyInt(self.card_type_id)]

\* Board.add_card
add_card(self, card, position, reply) ==
    Bind(Return(dumps(Stamp(self, card))),
         LAMBDA card_json :
    Bind(call(ApiBoard(self.service, self.board_id)
                  \o <<"/", "AddCard", "/", "Lane", "/">> \o FormatInt(self.lane_id)
                  \o <<"/", "Position", "/">> \o FormatInt(position),
              "POST",
              Some(card_json),
              Some([ContentType   |-> <<"application/json">>,
                    ContentLength |-> FormatInt(JsonLen(card_json, Len(card_json)))]),
              reply),
         LAMBDA content : Return(None)))

\* a lookup that takes every reply code from 200 on for "found"
get_card_url_from200(self, external_id, reply) ==
    Bind(call(ApiBoard(self.service, self.board_id)
                  \o <<"/", "GetCardByExternalId", "/">> \o FormatInt(external_id),
              "GET", None, None, reply),
         LAMBDA content :
            IF content.ReplyCode >= 200
            THEN Return(Some(self.service.base_url
                                \o <<"/", "Boards", "/", "View", "/", self.board_id>>))
            ELSE Return(None))

\* Board.get_card_url
get_card_url(self, external_id, reply) ==
    Bind(call(ApiBoard(self.service, self.board_id)
                  \o <<"/", "GetCardByExternalId", "/">> \o FormatInt(external_id),
              "GET", None, None, reply),
         LAMBDA content :
            IF content.ReplyCode = 200
            THEN Return(Some(self.service.base_url
                                \o <<"/", "Boards", "/", "View", "/", self.board_id>>))
            ELSE Return(None))

-----------------------------------------------------------------------------
(* LeanKitService: boards and cards *)

\* a lookup of the team in the trac_teams list instead of the zipped mapping
get_board_listed(service, board_name, reply) ==
    IF \A i \in 1..Len(config.trac_teams) : config.trac_teams[i] # board_name
    THEN Return(None)
    ELSE Bind(Board(service, board_name, reply), LAMBDA b : Return(Some(b)))

\* LeanKitService.get_board
get_board(service, board_name, reply) ==
    IF board_name \notin DOMAIN DictZip(config.trac_teams, config.kanban_boards)
    THEN Return(None)
    ELSE Bind(Board(service, board_name, reply), LAMBDA b : Return(Some(b)))

\* a lookup that falls back to a default priority
PriorityOrDefault(priorities, name) ==
    IF name \in DOMAIN priorities THEN Return(priorities[name]) ELSE Return("Normal")

\* priorities[ticket[priority_field]]
PriorityLookup(priorities, name) ==
    IF name \in DOMAIN priorities THEN Return(priorities[name]) ELSE Throw("KeyError")

\* LeanKitService.create_card
create_card(ticket) ==
    Bind(PriorityLookup(DictZip(config.trac_priorities, config.kanban_priorities),
                        Field(ticket, config.trac_priority_field)),
         LAMBDA priority :
                 Return(
                [Title              |-> PyStr(Field(ticket, "summary")),
                 Description        |-> PyStr(Field(ticket, "description")),
                 TypeId             |-> PyNone,
                 Priority           |-> PyStr(<<priority>>),
                 Size               |-> PyInt(1),
                 IsBlocked          |-> PyBool(FALSE),
                 BlockReason        |-> PyStr(<<>>),
                 DueDate            |-> PyNone,
                 ExternalSystemName |-> PyStr(<<"Trac">>),
                 ExternalSystemUrl  |-> PyStr(config.trac_base_url \o <<"/">>
                                                \o config.trac_path_ticket
                                                \o <<"/">> \o FormatInt(ticket.id)),
                 Tags               |-> PyStr(<<>>),
                 ClassOfServiceId   |-> PyNone,
                 ExternalCardID     |-> PyInt(ticket.id),
                 AssignedUserIds    |-> PyList(<<>>)]))

-----------------------------------------------------------------------------
(* Trac2KanbanPlugin: the handlers *)

\* Trac2KanbanPlugin._kanban_form
_kanban_form(b, ticket, reply) ==
    Bind(get_card_url(b, ticket.id, reply), LAMBDA url :
        IF ~IsNone(url) /\ Len(url[1]) > 0
        THEN Return(Anchor(LABEL_EXISTING, url[1]))
        ELSE Return(Anchor(LABEL_NEW,
                           config.trac_path_kanban \o <<"/">> \o FormatInt(ticket.id))))

\* stream | Transformer('//div[@class="description"]').after(content)
RECURSIVE After(_, _)
After(stream, content) ==
    IF Len(stream) = 0 THEN <<>>
    ELSE (IF stream[1] = Div("description")
          THEN <<stream[1], content>> ELSE <<stream[1]>>)
         \o After(Tail(stream), content)

\* Trac2KanbanPlugin.filter_stream; data.ticket is data.get('ticket')
filter_stream(req, filename, stream, data, infoReply, cardReply) ==
    IF filename # "ticket.html" THEN Return(stream)
    ELSE IF \/ IsNone(data.ticket)
            \/ ~data.ticket[1].exists
            \/ config.permission \notin req.perm
    THEN Return(stream)
    ELSE Bind(get_board(LeanKitService(config.kanban_base_url),
                        Field(data.ticket[1], "team"), infoReply),
              LAMBDA b :
                IF IsNone(b) THEN Return(stream)
                ELSE Bind(_kanban_form(b[1], data.ticket[1], cardReply),
                          LAMBDA a : Return(After(stream, a))))

\* Trac2KanbanPlugin._get_ticket: Ticket(env, ticket_id) is the host's; for
\* an id that is not stored it raises or gives a ticket that does not exist
_get_ticket(ticket_id, hostRaises) ==
    IF /\ ~IsNone(ticket_id)
       /\ ParseInt(ticket_id[1]) \in TicketIds
       /\ tickets[ParseInt(ticket_id[1])].exists
    THEN Return(Some(Ticket(ParseInt(ticket_id[1]))))
    ELSE IF hostRaises THEN Throw("ResourceNotFound")
    ELSE Return(None)

\* a redirect with status 301
_redirect_to_moved(req, url) ==
    Outcome(<<[ev |-> "send_response", code |-> 301],
              [ev |-> "send_header", name |-> "Location", value |-> url],
              [ev |-> "send_header", name |-> "Content-Length", value |-> FormatInt(0)],
              [ev |-> "end_headers"],
              [ev |-> "write", body |-> <<>>]>>,
            Ok(None))

\* Trac2KanbanPlugin._redirect_to
_redirect_to(req, url) ==
    Outcome(<<[ev |-> "send_response", code |-> 302],
              [ev |-> "send_header", name |-> "Location", value |-> url],
              [ev |-> "send_header", name |-> "Content-Length", value |-> FormatInt(0)],
              [ev |-> "end_headers"],
              [ev |-> "write", body |-> <<>>]>>,
            Ok(None))

\* Trac2KanbanPlugin.process_request; ticket['team'] of None is a TypeError,
\* board.add_card of None an AttributeError
process_request(req, hostRaises, infoReply, addReply) ==
    Bind(_get_ticket(_parse_ticket_id(req), hostRaises), LAMBDA ticket :
        IF IsNone(ticket) THEN Throw("TypeError")
        ELSE
    Bind(get_board(LeanKitService(config.kanban_base_url),
                   Field(ticket[1], "team"), infoReply),
         LAMBDA b :
    Bind(create_card(ticket[1]), LAMBDA card :
        IF IsNone(b) THEN Throw("AttributeError")
        ELSE
    Bind(add_card(b[1], card, 0, addReply), LAMBDA added :
    _redirect_to(req, config.trac_path_ticket \o <<"/">> \o FormatInt(ticket[1].id))))))

-----------------------------------------------------------------------------
(* The inputs: replies of the service, requests of the clients *)

Lane(id) == [Id |-> id]
CardType(id, name) == [Id |-> id, Name |-> name]

LaneLists == {<<Lane(7)>>, <<Lane(7), Lane(8)>>}
HandlerCardTypeLists ==
    {<<CardType(9, "Ready")>>,
     <<CardType(10, "Bug")>>,
     <<CardType(10, "Bug"), CardType(9, "Ready"), CardType(11, "Task")>>}
CardTypeLists == HandlerCardTypeLists \cup {<<CardType(11, "Task"), CardType(10, "Bug")>>}

InfoReply(lanes, types) ==
    JsonReply([ReplyCode |-> 200,
               ReplyData |-> <<[Lanes |-> lanes, CardTypes |-> types]>>])

\* replies to GetBoardIdentifiers
InfoReplies ==
    {BadReply, JsonReply([ReplyCode |-> 503, ReplyData |-> <<>>])}
        \cup {InfoReply(l, c) : l \in LaneLists, c \in CardTypeLists}

\* the replies to GetBoardIdentifiers offered to the plugin's handlers: no
\* JSON, one matching card type, no matching card type, two of them
HandlerInfoReplies ==
    {BadReply}
        \cup {InfoReply(<<Lane(7), Lane(8)>>, c) : c \in HandlerCardTypeLists}

\* replies to GetCardByExternalId
ReplyCodes == {200, 201, 404}
CardReplies ==
    {BadReply}
        \cup {JsonReply([ReplyCode |-> c, ReplyData |-> <<>>]) : c \in ReplyCodes}

\* replies to AddCard
AddReplies ==
    {BadReply, JsonReply([ReplyCode |-> 201, ReplyData |-> <<>>])}

\* the request paths the host offers to the plugin's process_request
ActionPaths ==
    {BaseConfig.trac_path_kanban \o <<"/">> \o FormatInt(id) : id \in TicketIds \cup {40}}
        \cup {BaseConfig.trac_path_kanban \o <<"/", "3", "\n">>,
              BaseConfig.trac_path_kanban \o <<"/">>}

\* the symbols of the request paths offered to match_request
PathSymbols == {"/", "kanban", "k", "3", "1", "\n"}
Paths == UNION {[1..n -> PathSymbols] : n \in 0..MaxPathLen}
KanbanPaths == {<<"/", "kanban">>, <<"/", "k">>}

\* Ticket objects and cards an API client passes
TicketObjects ==
    {[id |-> i, exists |-> r.exists, values |-> r.values] :
        i \in TicketIds, r \in TicketRows}
PriorTypeIds == {PyNone, PyInt(5), PyInt(9)}

\* the replies an operation consumed: one per request it sent, in order
Consumed(events, replies) ==
    SubSeq(replies, 1, Cardinality({i \in 1..Len(events) : events[i].ev = "http"}))

\* whether an event is an AddCard request carrying ticket id t
IsAddCard(e, t) ==
    /\ e.ev = "http"
    /\ e.method = "POST"
    /\ \E i \in 1..Len(e.url) : e.url[i] = "AddCard"
    /\ JsonMember(e.data[1], "ExternalCardID") = FormatInt(t)

AddCards(events, t) == Cardinality({i \in 1..Len(events) : IsAddCard(events[i], t)})

\* the service's count of AddCard requests, after these events
Count(events) == [t \in TicketIds |-> sent[t] + AddCards(events, t)]

\* all the AddCard requests a count holds
RECURSIVE SumOver(_, _)
SumOver(f, S) ==
    IF S = {} THEN 0
    ELSE LET x == CHOOSE y \in S : TRUE IN f[x] + SumOver(f, S \ {x})
Total(count) == SumOver(count, DOMAIN count)

NoCall == [handler |-> "none"]

\* ticket 12 is stored; ticket 3 is any row, stored or not
TicketTables ==
    {[t \in TicketIds |-> IF t = 3 THEN r ELSE TicketRow(TRUE, "beta", "major")] :
        r \in TicketRows}

-----------------------------------------------------------------------------
(* The plugin under the host: page renders and activations *)

Init ==
    /\ config = BaseConfig
    /\ tickets \in TicketTables
    /\ sent = [t \in TicketIds |-> 0]
    /\ board = None
    /\ last = NoCall

\* the host renders a page and passes it through filter_stream
Render ==
    \E perm \in PermSets, filename \in {"ticket.html", "query.html"},
       stream \in Streams, id \in {0} \cup TicketIds,
       infoReply \in HandlerInfoReplies, cardReply \in CardReplies :
        \E req \in {[path_info |-> config.trac_path_ticket, perm |-> perm]},
           data \in {[ticket |-> IF id = 0 THEN None ELSE Some(Ticket(id))]} :
        \E out \in {filter_stream(req, filename, stream, data, infoReply, cardReply)} :
            /\ last' = [handler  |-> "filter_stream",
                        req      |-> req,
                        filename |-> filename,
                        stream   |-> stream,
                        data     |-> data,
                        replies  |-> Consumed(out.events, <<infoReply, cardReply>>),
                        out      |-> out]
            /\ UNCHANGED <<config, tickets, sent, board>>

\* the host dispatches a request that match_request accepted to
\* process_request
Activate ==
    \E path \in ActionPaths, perm \in PermSets, hostRaises \in BOOLEAN,
       infoReply \in HandlerInfoReplies, addReply \in AddReplies :
        \E req \in {[path_info |-> path, perm |-> perm]} :
            /\ Truthy(match_request(req))
            /\ \E out \in {process_request(req, hostRaises, infoReply, addReply)} :
               \E count \in {Count(out.events)} :
                /\ Total(count) <= MaxAddCard
                /\ sent' = count
                /\ last' = [handler    |-> "process_request",
                            req        |-> req,
                            hostRaises |-> hostRaises,
                            replies    |-> Consumed(out.events, <<infoReply, addReply>>),
                            out        |-> out]
                /\ UNCHANGED <<config, tickets, board>>

Next == Render \/ Activate

Spec == Init /\ [][Next]_vars

-----------------------------------------------------------------------------
(* The Board and LeanKitService classes under an API client *)

InitApi ==
    /\ config \in Configs
    /\ tickets = [t \in TicketIds |-> TicketRow(TRUE, "beta", "major")]
    /\ sent = [t \in TicketIds |-> 0]
    /\ board = None
    /\ last = NoCall

\* board = Board(service, board_name, env)
NewBoard ==
    \E board_name \in Teams, reply \in InfoReplies :
        \E out \in {Board(LeanKitService(config.kanban_base_url), board_name, reply)} :
            /\ board' = IF Raised(out.result) THEN board ELSE Some(Val(out.result))
            /\ last' = [handler    |-> "Board",
                        board_name |-> board_name,
                        replies    |-> Consumed(out.events, <<reply>>),
                        out        |-> out]
            /\ UNCHANGED <<config, tickets, sent>>

\* board.add_card(card, position)
AddCard ==
    \E id \in TicketIds, prior \in PriorTypeIds, position \in 0..MaxPosition,
       reply \in AddReplies :
        /\ ~IsNone(board)
        /\ \E card \in {[Val(create_card(Ticket(id)).result) EXCEPT !["TypeId"] = prior]} :
           \E out \in {add_card(board[1], card, position, reply)} :
           \E count \in {Count(out.events)} :
            /\ Total(count) <= MaxAddCard
            /\ sent' = count
            /\ last' = [handler  |-> "add_card",
                        self     |-> board[1],
                        card     |-> card,
                        position |-> position,
                        replies  |-> Consumed(out.events, <<reply>>),
                        out      |-> out]
            /\ UNCHANGED <<config, tickets, board>>

\* board.get_card_url(external_id)
GetCardUrl ==
    \E id \in TicketIds, reply \in CardReplies :
        /\ ~IsNone(board)
        /\ \E out \in {get_card_url(board[1], id, reply)} :
            /\ last' = [handler     |-> "get_card_url",
                        self        |-> board[1],
                        external_id |-> id,
                        replies     |-> Consumed(out.events, <<reply>>),
                        out         |-> out]
            /\ UNCHANGED <<config, tickets, sent, board>>

\* service.create_card(ticket)
CreateCard ==
    \E ticket \in TicketObjects :
        \E out \in {create_card(ticket)} :
            /\ last' = [handler |-> "create_card",
                        ticket  |-> ticket,
                        out     |-> out]
            /\ UNCHANGED <<config, tickets, sent, board>>

NextApi == NewBoard \/ AddCard \/ GetCardUrl \/ CreateCard

SpecApi == InitApi /\ [][NextApi]_vars

-----------------------------------------------------------------------------
(* match_request under the host's request dispatch *)

InitRoute ==
    /\ config \in {[BaseConfig EXCEPT !.trac_path_kanban = p] : p \in KanbanPaths}
    /\ tickets = [t \in TicketIds |-> TicketRow(TRUE, "beta", "major")]
    /\ sent = [t \in TicketIds |-> 0]
    /\ board = None
    /\ last \in {[handler |-> "request",
                  req     |-> [path_info |-> p, perm |-> {"TICKET_VIEW"}]] :
                     p \in Paths}

\* the host asks the plugin whether it handles the request
MatchRequest ==
    /\ last.handler = "request"
    /\ last' = [handler |-> "match_request",
                req     |-> last.req,
                out     |-> match_request(last.req)]
    /\ UNCHANGED <<config, tickets, sent, board>>

NextRoute == MatchRequest

SpecRoute == InitRoute /\ [][NextRoute]_vars

-----------------------------------------------------------------------------
(* Properties *)

\* whether k is a key of the mapping zipped from keys and vals
IsKey(keys, vals, k) ==
    \E i \in 1..Min(Len(keys), Len(vals)) : keys[i] = k

\* the value the mapping zipped from keys and vals gives k: that of the last
\* pair whose key is k
PairValue(keys, vals, k) ==
    vals[CHOOSE i \in 1..Min(Len(keys), Len(vals)) :
            /\ keys[i] = k
            /\ \A j \in (i + 1)..Min(Len(keys), Len(vals)) : keys[j] # k]

TeamMapped(team) == IsKey(config.trac_teams, config.kanban_boards, team)
PriorityMapped(p) == IsKey(config.trac_priorities, config.kanban_priorities, p)

IsResponse(e) == e.ev \in {"send_response", "send_header", "end_headers", "write"}

\* the ticket id in the path of the activation that ran last
ActivatedId == ParseInt(match_request(last.req)[1])
ActivatedStored == ActivatedId \in TicketIds /\ tickets[ActivatedId].exists

\* the reply to GetBoardIdentifiers makes a Board: one lane at the
\* configured position, one card type of the allow-list
Resolves(reply) ==
    /\ reply.json
    /\ Len(reply.doc.ReplyData) >= 1
    /\ LET lanes == reply.doc.ReplyData[1].Lanes
           types == reply.doc.ReplyData[1].CardTypes
           pos == config.kanban_lane_position
       IN  /\ -Len(lanes) <= pos /\ pos < Len(lanes)
           /\ Cardinality({i \in 1..Len(types) :
                  \E j \in 1..Len(config.kanban_card_type) :
                      config.kanban_card_type[j] = types[i].Name}) = 1

(* C1: over any sequence of renders and activations, at most one AddCard   *)
(* request carrying a ticket's id as ExternalCardID is sent to the board.  *)
AtMostOneAddCard == \A t \in TicketIds : sent[t] <= 1

(* C2: for a ticket whose team is no key of the team->board mapping,       *)
(* get_board returns None and filter_stream returns the input stream       *)
(* unmodified, having sent nothing.                                        *)
UnmappedTeamUntouched ==
    (/\ last.handler = "filter_stream"
     /\ ~IsNone(last.data.ticket)
     /\ ~TeamMapped(Field(last.data.ticket[1], "team")))
    => /\ last.out = Return(last.stream)
       /\ \A r \in HandlerInfoReplies :
            get_board(LeanKitService(config.kanban_base_url),
                      Field(last.data.ticket[1], "team"), r) = Return(None)

UnmappedTeamRendered ==
    /\ last.handler = "filter_stream"
    /\ last.filename = "ticket.html"
    /\ ~IsNone(last.data.ticket)
    /\ last.data.ticket[1].exists
    /\ config.permission \in last.req.perm
    /\ ~TeamMapped(Field(last.data.ticket[1], "team"))
    /\ last.out = Return(last.stream)

\* the anchor the render flow is to insert for a ticket, given the reply code
ExpectedAnchor(ticket, code) ==
    IF code = 200
    THEN Anchor("Baby on Board",
                config.kanban_base_url
                    \o <<"/", "Boards", "/", "View", "/",
                         PairValue(config.trac_teams, config.kanban_boards,
                                   Field(ticket, "team"))>>)
    ELSE Anchor("Kanbanize!",
                config.trac_path_kanban \o <<"/">> \o FormatInt(ticket.id))

\* the render that ran last resolved a board and got a JSON reply to
\* GetCardByExternalId
RenderedWithBoard ==
    /\ last.handler = "filter_stream"
    /\ Len(last.replies) = 2
    /\ last.replies[2].json

(* C3: in the render flow with a resolved board, reply code 200 gives the  *)
(* anchor "Baby on Board" to <base_url>/Boards/View/<board_id>, any other  *)
(* reply code the anchor "Kanbanize!" to <trac_path_kanban>/<ticket_id>.   *)
AnchorByReplyCode ==
    RenderedWithBoard
    => /\ ~Raised(last.out.result)
       /\ LET page == Val(last.out.result)
              anchors == {i \in 1..Len(page) : page[i].tag = "a"}
          IN  /\ anchors # {}
              /\ \A i \in anchors :
                    page[i] = ExpectedAnchor(last.data.ticket[1],
                                             last.replies[2].doc.ReplyCode)

ExistingCardRendered ==
    /\ RenderedWithBoard
    /\ last.replies[2].doc.ReplyCode = 200
    /\ \E i \in 1..Len(Val(last.out.result)) :
          /\ Val(last.out.result)[i].tag = "a"
          /\ Val(last.out.result)[i].label = LABEL_EXISTING

\* the activation that ran last was for a stored ticket with a mapped team,
\* a board that resolves and a mapped priority
Activatable ==
    /\ last.handler = "process_request"
    /\ ActivatedStored
    /\ TeamMapped(tickets[ActivatedId].values.team)
    /\ PriorityMapped(tickets[ActivatedId].values.priority)
    /\ Len(last.replies) >= 1
    /\ Resolves(last.replies[1])

\* the AddCard request went out and was answered before anything was
\* written to the client, and the client got one response: 302, Location
\* <trac_path_ticket>/<ticket_id>, an empty body
RedirectedAfterAddCard ==
    LET e == last.out.events
        adds == {i \in 1..Len(e) : IsAddCard(e[i], ActivatedId)}
        resp == {i \in 1..Len(e) : IsResponse(e[i])}
    IN  /\ adds # {}
        /\ Len(last.replies) = 2
        /\ \A i \in adds, j \in resp : i < j
        /\ Cardinality({j \in resp : e[j].ev = "send_response"}) = 1
        /\ \A j \in resp : e[j].ev = "send_response" => e[j].code = 302
        /\ Cardinality({j \in resp : e[j].ev = "send_header" /\ e[j].name = "Location"}) = 1
        /\ \A j \in resp :
              (e[j].ev = "send_header" /\ e[j].name = "Location")
              => e[j].value = config.trac_path_ticket \o <<"/">> \o FormatInt(ActivatedId)
        /\ \E j \in resp : e[j].ev = "write"
        /\ \A j \in resp : e[j].ev = "write" => e[j].body = <<>>
        /\ ~Raised(last.out.result)

(* C4 as stated: an activation for a stored ticket with a resolvable board *)
(* and a mapped priority sends AddCard, then answers 302 with Location     *)
(* <trac_path_ticket>/<ticket_id> and an empty body.                       *)
ActivationRedirects == Activatable => RedirectedAfterAddCard

(* C4, amended: the same, provided the service's reply to AddCard parses   *)
(* as JSON; when it does not, the error propagates and nothing is written  *)
(* to the client.                                                          *)
ActivationRedirectsOnJsonReply ==
    Activatable
    => /\ Len(last.replies) = 2
       /\ last.replies[2].json => RedirectedAfterAddCard
       /\ ~last.replies[2].json
            => /\ Raised(last.out.result)
               /\ \A i \in 1..Len(last.out.events) : ~IsResponse(last.out.events[i])

ActivationRedirected ==
    /\ Activatable
    /\ ActivatedId = 12
    /\ last.replies[2].json
    /\ RedirectedAfterAddCard

(* C5: match_request is truthy if and only if the path is exactly          *)
(* <trac_path_kanban>/ followed by one or more decimal digits.             *)
IsActionPath(path, s) ==
    /\ Len(s) >= Len(path) + 2
    /\ SubSeq(s, 1, Len(path)) = path
    /\ s[Len(path) + 1] = "/"
    /\ \A i \in (Len(path) + 2)..Len(s) : s[i] \in DigitSet

MatchesExactly ==
    last.handler = "match_request"
    => (Truthy(last.out) <=> IsActionPath(config.trac_path_kanban, last.req.path_info))

\* the Board construction that ran last got a board-identifiers document
BoardFromDocument ==
    /\ last.handler = "Board"
    /\ TeamMapped(last.board_name)
    /\ Len(last.replies) = 1
    /\ last.replies[1].json
    /\ Len(last.replies[1].doc.ReplyData) >= 1

LaneOutOfRange ==
    LET lanes == last.replies[1].doc.ReplyData[1].Lanes
        pos == config.kanban_lane_position
    IN  pos >= Len(lanes) \/ pos < -Len(lanes)

NoTypeMatches ==
    LET types == last.replies[1].doc.ReplyData[1].CardTypes
    IN  \A i \in 1..Len(types), j \in 1..Len(config.kanban_card_type) :
            config.kanban_card_type[j] # types[i].Name

(* C6 as stated: construction fails when the lane position is out of       *)
(* range, and does not fail when no card type is in the allow-list.        *)
BoardSurvivesNoMatch ==
    BoardFromDocument
    => /\ LaneOutOfRange => Raised(last.out.result)
       /\ (~LaneOutOfRange /\ NoTypeMatches) => ~Raised(last.out.result)

(* C6, amended: construction fails with an IndexError when the lane        *)
(* position is out of range, and with a ValueError when no card type is in *)
(* the allow-list: _parse_info yields a list of the lane id alone, which   *)
(* __init__ cannot unpack into a lane id and a card type id.               *)
BoardConstructionFails ==
    BoardFromDocument
    => /\ LaneOutOfRange => last.out.result = Raise("IndexError")
       /\ (~LaneOutOfRange /\ NoTypeMatches)
            => /\ last.out.result = Raise("ValueError")
               /\ ~Raised(_parse_info(last.replies[1].doc).result)
               /\ Len(Val(_parse_info(last.replies[1].doc).result)) = 1

NoMatchConstruction ==
    /\ BoardFromDocument
    /\ ~LaneOutOfRange
    /\ NoTypeMatches
    /\ last.out.result = Raise("ValueError")

(* C7: whatever TypeId the card had, the JSON body add_card POSTs carries  *)
(* the board's card type id as TypeId, and the request goes to the board's *)
(* lane at the given position.                                             *)
AddCardStampsType ==
    last.handler = "add_card"
    => /\ Len(last.out.events) = 1
       /\ LET e == last.out.events[1]
          IN  /\ e.ev = "http"
              /\ e.method = "POST"
              /\ JsonMember(e.data[1], "TypeId") = FormatInt(last.self.card_type_id)
              /\ e.url = last.self.service.base_url
                            \o <<"/", "Kanban", "/", "Api", "/", "Board", "/",
                                 last.self.board_id,
                                 "/", "AddCard", "/", "Lane", "/">>
                            \o FormatInt(last.self.lane_id)
                            \o <<"/", "Position", "/">>
                            \o FormatInt(last.position)

TypedCardAdded ==
    /\ last.handler = "add_card"
    /\ last.card["TypeId"] = PyInt(5)
    /\ last.self.card_type_id # 5
    /\ last.position = 1
    /\ ~Raised(last.out.result)

(* C8: for a ticket whose priority is a key of the priority mapping,       *)
(* create_card returns a payload with the mapped priority, the ticket's id *)
(* as ExternalCardID and "Trac" as ExternalSystemName, and sends nothing.  *)
CardPayload ==
    (/\ last.handler = "create_card"
     /\ PriorityMapped(Field(last.ticket, config.trac_priority_field)))
    => /\ last.out.events = <<>>
       /\ ~Raised(last.out.result)
       /\ Val(last.out.result)["Priority"]
            = PyStr(<<PairValue(config.trac_priorities, config.kanban_priorities,
                                Field(last.ticket, config.trac_priority_field))>>)
       /\ Val(last.out.result)["ExternalCardID"] = PyInt(last.ticket.id)
       /\ Val(last.out.result)["ExternalSystemName"] = PyStr(<<"Trac">>)

MajorCardCreated ==
    /\ last.handler = "create_card"
    /\ Field(last.ticket, "priority") = "major"
    /\ last.ticket.id = 12
    /\ ~Raised(last.out.result)
    /\ Val(last.out.result)["Priority"] = PyStr(<<"Critical">>)

(* C9: an activation for a ticket that is not stored, whose team has no    *)
(* board or whose priority is no key of the priority mapping ends in a     *)
(* propagated error: no AddCard request is sent, nothing is written to the *)
(* client.                                                                 *)
ActivationFails ==
    (/\ last.handler = "process_request"
     /\ \/ ~ActivatedStored
        \/ ~TeamMapped(tickets[ActivatedId].values.team)
        \/ ~PriorityMapped(tickets[ActivatedId].values.priority))
    => /\ Raised(last.out.result)
       /\ \A i \in 1..Len(last.out.events) :
            /\ ~IsResponse(last.out.events[i])
            /\ last.out.events[i].method # "POST"

UnmappedPriorityActivated ==
    /\ last.handler = "process_request"
    /\ ActivatedStored
    /\ TeamMapped(tickets[ActivatedId].values.team)
    /\ ~PriorityMapped(tickets[ActivatedId].values.priority)
    /\ Len(last.replies) = 1
    /\ Resolves(last.replies[1])
    /\ last.out.result = Raise("KeyError")

\* the i-th reply the activation that ran last consumed
ReplyAt(i) == IF i <= Len(last.replies) THEN last.replies[i] ELSE BadReply

(* C10: the permission is not consulted on activation: the request of a    *)
(* user with any other permission set is matched and processed the same.   *)
PermissionNotConsulted ==
    last.handler = "process_request"
    => \A p \in PermSets :
          /\ match_request([last.req EXCEPT !.perm = p]) = match_request(last.req)
          /\ process_request([last.req EXCEPT !.perm = p], last.hostRaises,
                             ReplyAt(1), ReplyAt(2)) = last.out

UnpermittedActivation ==
    /\ last.handler = "process_request"
    /\ config.permission \notin last.req.perm
    /\ \E i \in 1..Len(last.out.events) : IsAddCard(last.out.events[i], ActivatedId)
    /\ \E i \in 1..Len(last.out.events) : last.out.events[i].ev = "send_response"

=============================================================================
